---- MODULE Spec2Model ----
(***************************************************************************)
(* Model of SingleLinkedList<Type> (single-linked-list.h).                 *)
(*                                                                         *)
(* The heap is a finite set of node addresses.  Every list object embeds   *)
(* its sentinel head_ (address Sentinel(l)) and its counter size_.  Each   *)
(* public operation is one action; operator `new` hands out the addresses  *)
(* of the input sequence `allocs` in order and throws std::bad_alloc when  *)
(* that sequence is exhausted.  Calls that break a documented precondition *)
(* (position not in the list, no node after the position) are undefined    *)
(* behaviour and are excluded by the guards of the actions.                *)
(***************************************************************************)
EXTENDS Integers, Sequences, FiniteSets

\* ---- bounds of the model ----
MaxNodes == 3      \* heap capacity: number of node addresses
MaxCopyNodes == 4  \* heap capacity when whole lists are copied
MaxVal   == 2      \* element values are 1..MaxVal
MaxLen   == 2      \* longest initializer list

NULL == 0          \* nullptr

\* the address space; operator new hands out the addresses of `arena`
Heap     == 1..(IF MaxCopyNodes > MaxNodes THEN MaxCopyNodes ELSE MaxNodes)
Lists    == {1, 2}                \* the list objects a and b of the caller
TempList == 3                     \* the local `temp` of operator=
Slots    == Lists \cup {TempList}
Values   == 1..MaxVal

\* &head_ of list object l (the sentinel is a member, not a heap node)
Sentinel(l) == 0 - l

Sentinels == {Sentinel(l) : l \in Slots}
Addrs     == Heap \cup Sentinels

VARIABLES next_node, value, size_, allocated, alive, arena
vars == <<next_node, value, size_, allocated, alive, arena>>

\* the memory as one record, so that operations compose
St == [next_node |-> next_node, value |-> value, size_ |-> size_,
       allocated |-> allocated, arena |-> arena]

\* Node::Node(val, next) placed at address n by operator new
NewNode(s, n, v, nxt) ==
    [s EXCEPT !.next_node[n] = nxt, !.value[n] = v,
              !.allocated = @ \cup {n}]

\* delete n
DeleteNode(s, n) ==
    [s EXCEPT !.next_node[n] = NULL, !.value[n] = 0,
              !.allocated = @ \ {n}]

\* begin() .. end(): the nodes visited by operator++ until nullptr
RECURSIVE Walk(_, _, _)
Walk(s, n, fuel) ==
    IF n = NULL \/ fuel = 0 THEN <<>>
    ELSE <<n>> \o Walk(s, s.next_node[n], fuel - 1)

begin(s, l) == s.next_node[Sentinel(l)]
NodeSeq(s, l) == Walk(s, begin(s, l), Cardinality(s.arena))
\* operator* along the range
Traverse(s, l) ==
    LET ns == NodeSeq(s, l) IN [i \in 1..Len(ns) |-> s.value[ns[i]]]
ChainNodes(s, l) == {NodeSeq(s, l)[i] : i \in 1..Len(NodeSeq(s, l))}

\* *it = v through the mutable Iterator: operator* returns Type& into the node
IterAssign(s, n, v) == [s EXCEPT !.value[n] = v]

GetSize(s, l) == s.size_[l]
IsEmpty(s, l) == s.size_[l] <= 0

\* PushFront that forgets size_++
PushFront_NoCount(s, l, v, allocs) ==
    IF allocs = <<>>
    THEN [st |-> s, thrown |-> TRUE, rest |-> allocs]
    ELSE LET n  == Head(allocs)
             s1 == NewNode(s, n, v, s.next_node[Sentinel(l)])
         IN [st |-> [s1 EXCEPT !.next_node[Sentinel(l)] = n],
             thrown |-> FALSE, rest |-> Tail(allocs)]

\* void PushFront(const Type&)
PushFront(s, l, v, allocs) ==
    IF allocs = <<>>
    THEN [st |-> s, thrown |-> TRUE, rest |-> allocs]
    ELSE LET n  == Head(allocs)
             s1 == NewNode(s, n, v, s.next_node[Sentinel(l)])
         IN [st |-> [s1 EXCEPT !.next_node[Sentinel(l)] = n,
                               !.size_[l] = @ + 1],
             thrown |-> FALSE, rest |-> Tail(allocs)]

\* InsertAfter that links the new node to nullptr instead of pos's successor
InsertAfter_DropTail(s, l, pos, v, allocs) ==
    IF allocs = <<>>
    THEN [st |-> s, thrown |-> TRUE, ret |-> NULL]
    ELSE LET new_node == Head(allocs)
             s1 == NewNode(s, new_node, v, NULL)
         IN [st |-> [s1 EXCEPT !.next_node[pos] = new_node,
                               !.size_[l] = @ + 1],
             thrown |-> FALSE, ret |-> new_node]

\* Iterator InsertAfter(ConstIterator pos, const Type&)
InsertAfter(s, l, pos, v, allocs) ==
    IF allocs = <<>>
    THEN [st |-> s, thrown |-> TRUE, ret |-> NULL]
    ELSE LET new_node == Head(allocs)
             s1 == NewNode(s, new_node, v, s.next_node[pos])
         IN [st |-> [s1 EXCEPT !.next_node[pos] = new_node,
                               !.size_[l] = @ + 1],
             thrown |-> FALSE, ret |-> new_node]

\* PopFront that forgets --size_
PopFront_NoCount(s, l) ==
    LET next == s.next_node[Sentinel(l)]
        s1   == [s EXCEPT !.next_node[Sentinel(l)] = s.next_node[next]]
    IN DeleteNode(s1, next)

\* void PopFront()
PopFront(s, l) ==
    LET next == s.next_node[Sentinel(l)]
        s1   == [s EXCEPT !.next_node[Sentinel(l)] = s.next_node[next],
                          !.size_[l] = @ - 1]
    IN DeleteNode(s1, next)

\* EraseAfter that returns the position it was given
EraseAfter_ReturnsPos(s, l, pos) ==
    LET node_to_delete == s.next_node[pos]
        s1 == [s EXCEPT !.next_node[pos] = s.next_node[node_to_delete]]
        s2 == DeleteNode(s1, node_to_delete)
        s3 == [s2 EXCEPT !.size_[l] = @ - 1]
    IN [st |-> s3, ret |-> pos]

\* Iterator EraseAfter(ConstIterator pos)
EraseAfter(s, l, pos) ==
    LET node_to_delete == s.next_node[pos]
        s1 == [s EXCEPT !.next_node[pos] = s.next_node[node_to_delete]]
        s2 == DeleteNode(s1, node_to_delete)
        s3 == [s2 EXCEPT !.size_[l] = @ - 1]
    IN [st |-> s3, ret |-> s3.next_node[pos]]

\* Clear that resets head_ and size_ without deleting the nodes
Clear_NoDelete(s, l) ==
    [s EXCEPT !.next_node[Sentinel(l)] = NULL, !.size_[l] = 0]

\* void Clear()
RECURSIVE Clear(_, _)
Clear(s, l) ==
    IF s.size_[l] > 0
    THEN LET next == s.next_node[s.next_node[Sentinel(l)]]
             s1   == DeleteNode(s, s.next_node[Sentinel(l)])
         IN Clear([s1 EXCEPT !.next_node[Sentinel(l)] = next,
                             !.size_[l] = @ - 1], l)
    ELSE s

\* swap that exchanges the chains but not the counters
swap_NoSize(s, l, other) ==
    [s EXCEPT !.next_node[Sentinel(l)] = s.next_node[Sentinel(other)],
              !.next_node[Sentinel(other)] = s.next_node[Sentinel(l)]]

\* void swap(SingleLinkedList& other)
swap(s, l, other) ==
    [s EXCEPT !.next_node[Sentinel(l)] = s.next_node[Sentinel(other)],
              !.next_node[Sentinel(other)] = s.next_node[Sentinel(l)],
              !.size_[l] = s.size_[other],
              !.size_[other] = s.size_[l]]

\* the loop run front to back: PushFront(temp[1]) first
RECURSIVE InitLoop_Forward(_, _, _, _, _)
InitLoop_Forward(s, l, temp, i, allocs) ==
    IF i = 0 THEN [st |-> s, thrown |-> FALSE, rest |-> allocs]
    ELSE LET r == PushFront(s, l, temp[Len(temp) - i + 1], allocs)
         IN IF r.thrown THEN r
            ELSE InitLoop_Forward(r.st, l, temp, i - 1, r.rest)

\* the loop of InitFromForwardRange: PushFront(temp[i]) for i = Len .. 1
RECURSIVE InitLoop(_, _, _, _, _)
InitLoop(s, l, temp, i, allocs) ==
    IF i = 0 THEN [st |-> s, thrown |-> FALSE, rest |-> allocs]
    ELSE LET r == PushFront(s, l, temp[i], allocs)
         IN IF r.thrown THEN r
            ELSE InitLoop(r.st, l, temp, i - 1, r.rest)

\* void InitFromForwardRange(begin, end): buffer the range, push in reverse
InitFromForwardRange(s, l, range, allocs) ==
    LET temp == range IN InitLoop(s, l, temp, Len(temp), allocs)

\* the storage of list object l goes away without ~SingleLinkedList running
\* (an exception left the constructor body): head_ and size_ are released,
\* Node has no destructor that follows next_node
ReleaseObject(s, l) ==
    [s EXCEPT !.next_node[Sentinel(l)] = NULL, !.size_[l] = 0]

\* SingleLinkedList(std::initializer_list<Type> values), object l
ListCtor(s, l, values, allocs) ==
    LET r == InitFromForwardRange(s, l, values, allocs)
    IN IF r.thrown THEN [st |-> ReleaseObject(r.st, l), thrown |-> TRUE]
       ELSE [st |-> r.st, thrown |-> FALSE]

\* copy constructor that copies head_.next_node and size_ (shallow copy)
CopyCtor_Shallow(s, l, other, allocs) ==
    [st |-> [s EXCEPT !.next_node[Sentinel(l)] = s.next_node[Sentinel(other)],
                      !.size_[l] = s.size_[other]],
     thrown |-> FALSE]

\* copy constructor that copies the first node and shares the rest of the
\* chain with the source
CopyCtor_SharedTail(s, l, other, allocs) ==
    LET first == s.next_node[Sentinel(other)]
    IN IF first = NULL THEN [st |-> s, thrown |-> FALSE]
       ELSE IF allocs = <<>> THEN [st |-> s, thrown |-> TRUE]
       ELSE LET n  == Head(allocs)
                s1 == NewNode(s, n, s.value[first], s.next_node[first])
            IN [st |-> [s1 EXCEPT !.next_node[Sentinel(l)] = n,
                                  !.size_[l] = s.size_[other]],
                thrown |-> FALSE]

\* SingleLinkedList(const SingleLinkedList& other), object l
CopyCtor(s, l, other, allocs) ==
    LET r == InitFromForwardRange(s, l, Traverse(s, other), allocs)
    IN IF r.thrown THEN [st |-> ReleaseObject(r.st, l), thrown |-> TRUE]
       ELSE [st |-> r.st, thrown |-> FALSE]

\* ~SingleLinkedList()
Dtor(s, l) == Clear(s, l)

\* operator= without the temporary: Clear(), then copy rhs into *this
CopyAssign_ClearFirst(s, l, rhs, allocs) ==
    IF l # rhs
    THEN LET r == InitFromForwardRange(Clear(s, l), l, Traverse(s, rhs), allocs)
         IN [st |-> r.st, thrown |-> r.thrown]
    ELSE [st |-> s, thrown |-> FALSE]

\* SingleLinkedList& operator=(const SingleLinkedList& rhs)
CopyAssign(s, l, rhs, allocs) ==
    IF l # rhs
    THEN LET t == CopyCtor(s, TempList, rhs, allocs)
         IN IF t.thrown THEN t
            ELSE [st |-> Dtor(swap(t.st, l, TempList), TempList),
                  thrown |-> FALSE]
    ELSE [st |-> s, thrown |-> FALSE]

\* template swap(lhs, rhs)
FreeSwap(s, lhs, rhs) == swap(s, lhs, rhs)

\* operator==: std::equal over the two forward ranges
RECURSIVE StdEqual(_, _, _, _)
StdEqual(s, a, b, fuel) ==
    IF a = NULL \/ b = NULL \/ fuel = 0 THEN a = NULL /\ b = NULL
    ELSE IF s.value[a] # s.value[b] THEN FALSE
    ELSE StdEqual(s, s.next_node[a], s.next_node[b], fuel - 1)

ListsEqual(s, lhs, rhs) ==
    StdEqual(s, begin(s, lhs), begin(s, rhs), Cardinality(s.arena))

\* ---- the environment: operator new ----
\* the free addresses in ascending order
RECURSIVE Ascending(_)
Ascending(free) ==
    IF free = {} THEN <<>>
    ELSE LET n == CHOOSE x \in free : \A y \in free : x <= y
         IN <<n>> \o Ascending(free \ {n})

\* the addresses operator new returns, in order, before it throws bad_alloc:
\* at most k free addresses.  The container only compares addresses for
\* equality, so one order of the free addresses stands for all of them.
AllocSeqs(s, k) ==
    LET order == Ascending(s.arena \ s.allocated)
    IN {SubSeq(order, 1, j) :
           j \in 0..(IF k < Len(order) THEN k ELSE Len(order))}

\* initializer lists
InitLists == UNION {[1..j -> Values] : j \in 0..MaxLen}

\* positions a caller may legally pass: before_begin() or a node of the list
Positions(s, l) == {Sentinel(l)} \cup ChainNodes(s, l)

Store(s) ==
    /\ next_node' = s.next_node
    /\ value' = s.value
    /\ size_' = s.size_
    /\ allocated' = s.allocated
    /\ arena' = s.arena

\* ---- state after program start: no list object exists yet ----
Init ==
    /\ next_node = [a \in Addrs |-> NULL]
    /\ value = [a \in Addrs |-> 0]
    /\ size_ = [l \in Slots |-> 0]
    /\ allocated = {}
    /\ alive = {}
    /\ arena = 1..MaxNodes

\* SingleLinkedList() = default
DefaultCtorCall(l) ==
    /\ l \notin alive
    /\ Store(St)
    /\ alive' = alive \cup {l}

ListCtorCall(l, values, allocs) ==
    /\ l \notin alive
    /\ LET r == ListCtor(St, l, values, allocs)
       IN /\ Store(r.st)
          /\ alive' = IF r.thrown THEN alive ELSE alive \cup {l}

CopyCtorCall(l, other, allocs) ==
    /\ l \notin alive
    /\ other \in alive
    /\ LET r == CopyCtor(St, l, other, allocs)
       IN /\ Store(r.st)
          /\ alive' = IF r.thrown THEN alive ELSE alive \cup {l}

CopyAssignCall(l, rhs, allocs) ==
    /\ l \in alive
    /\ rhs \in alive
    /\ LET r == CopyAssign(St, l, rhs, allocs)
       IN /\ Store(r.st)
          /\ alive' = alive

SwapCall(l, other) ==
    /\ l \in alive
    /\ other \in alive
    /\ Store(swap(St, l, other))
    /\ alive' = alive

FreeSwapCall(lhs, rhs) ==
    /\ lhs \in alive
    /\ rhs \in alive
    /\ Store(FreeSwap(St, lhs, rhs))
    /\ alive' = alive

DtorCall(l) ==
    /\ l \in alive
    /\ Store(Dtor(St, l))
    /\ alive' = alive \ {l}

InsertAfterCall(l, pos, v, allocs) ==
    /\ l \in alive
    /\ pos \in Positions(St, l)
    /\ LET r == InsertAfter(St, l, pos, v, allocs)
       IN /\ Store(r.st)
          /\ alive' = alive

EraseAfterCall(l, pos) ==
    /\ l \in alive
    /\ pos \in Positions(St, l)
    /\ next_node[pos] # NULL
    /\ LET r == EraseAfter(St, l, pos)
       IN /\ Store(r.st)
          /\ alive' = alive

PushFrontCall(l, v, allocs) ==
    /\ l \in alive
    /\ LET r == PushFront(St, l, v, allocs)
       IN /\ Store(r.st)
          /\ alive' = alive

\* *it = v for a dereferenceable Iterator it of list l (a real node of l)
IterAssignCall(l, pos, v) ==
    /\ l \in alive
    /\ pos \in ChainNodes(St, l)
    /\ Store(IterAssign(St, pos, v))
    /\ alive' = alive

PopFrontCall(l) ==
    /\ l \in alive
    /\ next_node[Sentinel(l)] # NULL
    /\ Store(PopFront(St, l))
    /\ alive' = alive

ClearCall(l) ==
    /\ l \in alive
    /\ Store(Clear(St, l))
    /\ alive' = alive

\* one call of the public interface, with element values from vals and
\* initializer lists from inits
Calls(vals, inits) ==
    \/ \E l \in Lists : DefaultCtorCall(l)
    \/ \E l \in Lists, values \in inits :
          \E allocs \in AllocSeqs(St, Len(values)) :
             ListCtorCall(l, values, allocs)
    \/ \E l \in Lists, other \in Lists :
          \E allocs \in AllocSeqs(St, size_[other]) :
             CopyCtorCall(l, other, allocs)
    \/ \E l \in Lists, rhs \in Lists :
          \E allocs \in AllocSeqs(St, size_[rhs]) :
             CopyAssignCall(l, rhs, allocs)
    \/ \E l \in Lists, other \in Lists : SwapCall(l, other)
    \/ \E lhs \in Lists, rhs \in Lists : FreeSwapCall(lhs, rhs)
    \/ \E l \in Lists : DtorCall(l)
    \/ \E l \in Lists, pos \in Addrs, v \in vals :
          \E allocs \in AllocSeqs(St, 1) :
             InsertAfterCall(l, pos, v, allocs)
    \/ \E l \in Lists, pos \in Addrs : EraseAfterCall(l, pos)
    \/ \E l \in Lists, v \in vals :
          \E allocs \in AllocSeqs(St, 1) : PushFrontCall(l, v, allocs)
    \/ \E l \in Lists, pos \in Heap, v \in vals : IterAssignCall(l, pos, v)
    \/ \E l \in Lists : PopFrontCall(l)
    \/ \E l \in Lists : ClearCall(l)

Next == Calls(Values, InitLists)

Spec == Init /\ [][Next]_vars

\* ---- the copy scenario: the whole public interface on a heap with room
\* for a second copy of a list of two nodes.  The container never inspects
\* an element value except in operator== and operator<, so two element
\* values and initializer lists of up to two elements are drawn here. ----
InitCopy ==
    /\ next_node = [a \in Addrs |-> NULL]
    /\ value = [a \in Addrs |-> 0]
    /\ size_ = [l \in Slots |-> 0]
    /\ allocated = {}
    /\ alive = {}
    /\ arena = 1..MaxCopyNodes

\* element values and initializer lists of the copy scenario
CopyValues == {1, 2}
CopyInitLists == UNION {[1..j -> CopyValues] : j \in 0..2}

NextCopy == Calls(CopyValues, CopyInitLists)

SpecCopy == InitCopy /\ [][NextCopy]_vars

\* ---------------------------------------------------------------------
\* vocabulary of the properties
\* ---------------------------------------------------------------------

\* the node reached from the sentinel of l after k next_node links
RECURSIVE Hop(_, _, _)
Hop(s, l, k) ==
    IF k = 0 THEN Sentinel(l)
    ELSE LET p == Hop(s, l, k - 1)
         IN IF p = NULL THEN NULL ELSE s.next_node[p]

\* seq with x placed right after its first i elements
InsertAt(seq, i, x) ==
    SubSeq(seq, 1, i) \o <<x>> \o SubSeq(seq, i + 1, Len(seq))

\* seq without its i-th element
RemoveAt(seq, i) == SubSeq(seq, 1, i - 1) \o SubSeq(seq, i + 1, Len(seq))

\* number of real nodes before and including position pos (0: before_begin)
IndexOf(s, l, pos) ==
    IF pos = Sentinel(l) THEN 0
    ELSE CHOOSE i \in 1..Len(NodeSeq(s, l)) : NodeSeq(s, l)[i] = pos

\* list m looks the same in s and t: same nodes, same values, same size
SameList(s, t, m) ==
    /\ NodeSeq(s, m) = NodeSeq(t, m)
    /\ Traverse(s, m) = Traverse(t, m)
    /\ s.size_[m] = t.size_[m]

\* the nodes owned by the live lists
OwnedNodes == UNION {ChainNodes(St, l) : l \in alive}

\* the mutations of list l (structural ones and writes through an
\* Iterator) that are legal in St,
\* as the set of states they produce
Mutations(l) ==
    {PushFront(St, l, v, a).st : v \in Values, a \in AllocSeqs(St, 1)}
    \cup {InsertAfter(St, l, pos, v, a).st :
             pos \in Positions(St, l), v \in Values, a \in AllocSeqs(St, 1)}
    \cup {EraseAfter(St, l, pos).st :
             pos \in {p \in Positions(St, l) : next_node[p] # NULL}}
    \cup (IF next_node[Sentinel(l)] # NULL THEN {PopFront(St, l)} ELSE {})
    \cup {IterAssign(St, pos, v) : pos \in ChainNodes(St, l), v \in Values}
    \cup {Clear(St, l)}

\* ---------------------------------------------------------------------
\* C1: for every live list, following next_node from the sentinel passes
\* exactly size_ allocated nodes and then reaches nullptr: the chain is
\* acyclic and GetSize() is the number of reachable real nodes.
\* ---------------------------------------------------------------------
C1_SizeCountsChain ==
    \A l \in alive :
       /\ \A k \in 1..size_[l] : Hop(St, l, k) \in allocated
       /\ Hop(St, l, size_[l] + 1) = NULL
       /\ GetSize(St, l) = Len(NodeSeq(St, l))

\* two live lists, one with at least two nodes, the other not empty
C1_Witness ==
    \E l \in alive, m \in alive :
       l # m /\ size_[l] >= 2 /\ size_[m] >= 1

\* ---------------------------------------------------------------------
\* C2: a list constructed from the initializer list S holds exactly the
\* elements of S in order from begin() to end(), and its size is Len(S).
\* ---------------------------------------------------------------------
C2_CtorKeepsOrder ==
    \A l \in Lists \ alive, values \in InitLists :
       \A allocs \in AllocSeqs(St, Len(values)) :
          LET r == ListCtor(St, l, values, allocs)
          IN ~r.thrown =>
                /\ Traverse(r.st, l) = values
                /\ GetSize(r.st, l) = Len(values)
                /\ Len(NodeSeq(r.st, l)) = Len(values)

\* a construction from two different values succeeds while the heap is in use
C2_Witness ==
    /\ allocated # {}
    /\ \E l \in Lists \ alive, values \in InitLists :
          \E allocs \in AllocSeqs(St, Len(values)) :
             /\ Len(values) >= 2
             /\ values[1] # values[2]
             /\ ~ListCtor(St, l, values, allocs).thrown

\* ---------------------------------------------------------------------
\* C3: a copy (constructor or assignment) equals its source and shares no
\* node with it; no node is in the chains of two live lists; a mutation of
\* one list leaves the nodes, elements and size of every other list alone.
\* Checked in the copy scenario, whose heap holds a list of two nodes
\* together with its copy, under every call of the public interface.
\* ---------------------------------------------------------------------
IsCopyOf(s, l, other) ==
    /\ ListsEqual(s, l, other)
    /\ Traverse(s, l) = Traverse(St, other)
    /\ GetSize(s, l) = GetSize(St, other)
    /\ Len(NodeSeq(s, l)) = GetSize(St, other)
    /\ SameList(s, St, other)
    /\ ChainNodes(s, l) \cap ChainNodes(s, other) = {}
    /\ ChainNodes(s, l) \cap allocated = {}

C3_CopyIsIndependent ==
    /\ \A l \in alive, m \in alive :
          l # m => ChainNodes(St, l) \cap ChainNodes(St, m) = {}
    /\ \A l \in Lists \ alive, other \in alive :
          \A allocs \in AllocSeqs(St, size_[other]) :
             LET r == CopyCtor(St, l, other, allocs)
             IN ~r.thrown => IsCopyOf(r.st, l, other)
    /\ \A l \in alive, rhs \in alive :
          \A allocs \in AllocSeqs(St, size_[rhs]) :
             LET r == CopyAssign(St, l, rhs, allocs)
             IN (l # rhs /\ ~r.thrown) => IsCopyOf(r.st, l, rhs)
    /\ \A l \in alive, m \in alive :
          l # m => \A t \in Mutations(l) : SameList(t, St, m)

\* a list of at least two nodes with different first and second elements
\* is copied successfully into a live list with other contents, and can be
\* mutated afterwards
C3_Witness ==
    \E l \in alive, m \in alive :
       /\ l # m
       /\ size_[m] >= 2
       /\ Traverse(St, m)[1] # Traverse(St, m)[2]
       /\ Traverse(St, l) # Traverse(St, m)
       /\ \E allocs \in AllocSeqs(St, size_[m]) :
             LET r == CopyAssign(St, l, m, allocs)
             IN /\ ~r.thrown
                /\ Len(NodeSeq(r.st, l)) >= 2
       /\ \E t \in Mutations(m) : Traverse(t, m) # Traverse(St, m)

\* ---------------------------------------------------------------------
\* C4: copy assignment a = b is all-or-nothing: when an allocation fails
\* the call throws and a, b keep their nodes, elements and size; otherwise
\* a holds the elements of b.
\* ---------------------------------------------------------------------
C4_AssignAllOrNothing ==
    \A l \in alive, rhs \in alive :
       \A allocs \in AllocSeqs(St, size_[rhs]) :
          LET r == CopyAssign(St, l, rhs, allocs)
          IN /\ r.thrown <=> (l # rhs /\ Len(allocs) < size_[rhs])
             /\ r.thrown => \A m \in alive : SameList(r.st, St, m)
             /\ ~r.thrown =>
                   /\ Traverse(r.st, l) = Traverse(St, rhs)
                   /\ GetSize(r.st, l) = GetSize(St, rhs)
                   /\ SameList(r.st, St, rhs)

\* a non-empty list is assigned from a different non-empty list and the
\* allocation fails
C4_Witness ==
    \E l \in alive, rhs \in alive :
       /\ l # rhs
       /\ size_[l] >= 1
       /\ size_[rhs] >= 1
       /\ Traverse(St, l) # Traverse(St, rhs)
       /\ \E allocs \in AllocSeqs(St, size_[rhs]) :
             CopyAssign(St, l, rhs, allocs).thrown

\* ---------------------------------------------------------------------
\* C5: every allocated node is in the chain of a live list, also after a
\* constructor or a copy assignment was aborted by a failed allocation.
\* ---------------------------------------------------------------------
C5_NoNodeOutsideLiveLists == allocated \subseteq OwnedNodes

\* ---------------------------------------------------------------------
\* C6: swap (member and free function) exchanges the element sequences,
\* sizes and chains of the two lists; no node is allocated, deallocated,
\* rewritten or relinked, and every other list is untouched.
\* ---------------------------------------------------------------------
Exchanged(t, l, other) ==
    /\ Traverse(t, l) = Traverse(St, other)
    /\ Traverse(t, other) = Traverse(St, l)
    /\ GetSize(t, l) = GetSize(St, other)
    /\ GetSize(t, other) = GetSize(St, l)
    /\ NodeSeq(t, l) = NodeSeq(St, other)
    /\ NodeSeq(t, other) = NodeSeq(St, l)
    /\ t.allocated = allocated
    /\ \A n \in Heap : t.value[n] = value[n] /\ t.next_node[n] = next_node[n]
    /\ \A m \in alive \ {l, other} : SameList(t, St, m)

C6_SwapExchanges ==
    \A l \in alive, other \in alive :
       /\ Exchanged(swap(St, l, other), l, other)
       /\ Exchanged(FreeSwap(St, l, other), l, other)

\* two live lists of different sizes and different first elements
C6_Witness ==
    \E l \in alive, other \in alive :
       /\ size_[l] >= 2
       /\ size_[other] = 1
       /\ Traverse(St, l)[1] # Traverse(St, other)[1]
       /\ Traverse(swap(St, l, other), l) # Traverse(St, l)

\* ---------------------------------------------------------------------
\* C7: Clear() and the destructor deallocate every real node of the list
\* and nothing else, and leave size 0, IsEmpty(), begin() == end(); the
\* list can be filled again afterwards.
\* ---------------------------------------------------------------------
Emptied(t, l) ==
    /\ t.allocated = allocated \ ChainNodes(St, l)
    /\ GetSize(t, l) = 0
    /\ IsEmpty(t, l)
    /\ begin(t, l) = NULL
    /\ Traverse(t, l) = <<>>
    /\ \A m \in alive \ {l} : SameList(t, St, m)
    /\ \A v \in Values, a \in AllocSeqs(t, 1) :
          a # <<>> => Traverse(PushFront(t, l, v, a).st, l) = <<v>>

C7_ClearEmpties ==
    \A l \in alive : Emptied(Clear(St, l), l) /\ Emptied(Dtor(St, l), l)

\* a list of at least two nodes is cleared next to another non-empty list
C7_Witness ==
    \E l \in alive, m \in alive :
       /\ l # m
       /\ size_[l] >= 2
       /\ size_[m] >= 1
       /\ Clear(St, l).allocated # allocated

\* ---------------------------------------------------------------------
\* C8: InsertAfter(pos, value) on a position of the list allocates one
\* node, puts value right after pos, keeps all other nodes, their values
\* and their order, adds 1 to the size and returns the new node.
\* ---------------------------------------------------------------------
C8_InsertAfterSplices ==
    \A l \in alive, v \in Values :
       \A pos \in Positions(St, l), allocs \in AllocSeqs(St, 1) :
          LET r == InsertAfter(St, l, pos, v, allocs)
              i == IndexOf(St, l, pos)
          IN ~r.thrown =>
                /\ r.ret \in arena \ allocated
                /\ r.st.allocated = allocated \cup {r.ret}
                /\ r.st.next_node[pos] = r.ret
                /\ r.st.value[r.ret] = v
                /\ NodeSeq(r.st, l) = InsertAt(NodeSeq(St, l), i, r.ret)
                /\ Traverse(r.st, l) = InsertAt(Traverse(St, l), i, v)
                /\ \A n \in allocated : r.st.value[n] = value[n]
                /\ GetSize(r.st, l) = GetSize(St, l) + 1
                /\ \A m \in alive \ {l} : SameList(r.st, St, m)

\* an insertion between two real nodes succeeds
C8_Witness ==
    \E l \in alive, v \in Values :
       \E pos \in ChainNodes(St, l), allocs \in AllocSeqs(St, 1) :
          /\ next_node[pos] # NULL
          /\ v # value[pos]
          /\ ~InsertAfter(St, l, pos, v, allocs).thrown

\* ---------------------------------------------------------------------
\* C9: EraseAfter(pos) on a position with a following node deallocates
\* that node only, links pos to its successor, keeps all other nodes,
\* values and order, subtracts 1 from the size and returns the node now
\* following pos (end() if there is none).
\* ---------------------------------------------------------------------
C9_EraseAfterUnlinks ==
    \A l \in alive :
       \A pos \in Positions(St, l) :
          next_node[pos] # NULL =>
             LET r == EraseAfter(St, l, pos)
                 i == IndexOf(St, l, pos)
                 victim == next_node[pos]
             IN /\ r.st.allocated = allocated \ {victim}
                /\ r.st.next_node[pos] = next_node[victim]
                /\ r.ret = next_node[victim]
                /\ r.ret = r.st.next_node[pos]
                /\ NodeSeq(r.st, l) = RemoveAt(NodeSeq(St, l), i + 1)
                /\ Traverse(r.st, l) = RemoveAt(Traverse(St, l), i + 1)
                /\ \A n \in allocated \ {victim} : r.st.value[n] = value[n]
                /\ GetSize(r.st, l) = GetSize(St, l) - 1
                /\ \A m \in alive \ {l} : SameList(r.st, St, m)

\* the node between two real nodes is erased
C9_Witness ==
    \E l \in alive :
       \E pos \in ChainNodes(St, l) :
          /\ next_node[pos] # NULL
          /\ next_node[next_node[pos]] # NULL
          /\ EraseAfter(St, l, pos).ret # NULL

\* ---------------------------------------------------------------------
\* C10: PushFront(value) leaves the list as InsertAfter(before_begin(),
\* value) does, and PopFront() as EraseAfter(before_begin()) does: same
\* elements, same size, same allocated nodes.
\* ---------------------------------------------------------------------
SameOutcome(s, t, l) ==
    /\ Traverse(s, l) = Traverse(t, l)
    /\ NodeSeq(s, l) = NodeSeq(t, l)
    /\ GetSize(s, l) = GetSize(t, l)
    /\ s.allocated = t.allocated

C10_FrontOpsAreAfterOps ==
    \A l \in alive :
       /\ \A v \in Values, allocs \in AllocSeqs(St, 1) :
             LET p == PushFront(St, l, v, allocs)
                 q == InsertAfter(St, l, Sentinel(l), v, allocs)
             IN p.thrown = q.thrown /\ SameOutcome(p.st, q.st, l)
       /\ next_node[Sentinel(l)] # NULL =>
             SameOutcome(PopFront(St, l), EraseAfter(St, l, Sentinel(l)).st, l)

\* a list of at least two nodes with room on the heap for a push
C10_Witness ==
    \E l \in alive :
       /\ size_[l] >= 2
       /\ \E v \in Values, allocs \in AllocSeqs(St, 1) :
             ~PushFront(St, l, v, allocs).thrown
       /\ Traverse(PopFront(St, l), l) # Traverse(St, l)
====
